---- MODULE Spec2Model ----
(***************************************************************************)
(* Model of homebridge-bose-soundtouch.                                    *)
(*                                                                         *)
(* Part 1: SoundTouchWebSocket (src/src/soundtouchWebSocket.ts), the       *)
(* per-device push connection: connect(), disconnect(), the handlers it    *)
(* registers on each socket (open, message, error, close), the reconnect   *)
(* timer, the heartbeat interval and handleMessage.                        *)
(*                                                                         *)
(* The instance's fields and the runtime objects it owns are gathered in   *)
(* the record This; every method of the class is an operator from such a   *)
(* record to the record after the call.                                    *)
(*                                                                         *)
(* Part 2: SoundTouchClient (src/src/soundtouchClient.ts), the HTTP        *)
(* client: request(), get(), post(), the operations built on them, and     *)
(* the power classification the accessory derives from now-playing data.   *)
(* An async operation is a call record that is resumed, at each await, by  *)
(* the event that settles the promise it waits for.                        *)
(*                                                                         *)
(* Part 3: SoundTouchDiscovery (src/unnamed/part_001), the UI server's     *)
(* discovery (src/unnamed/part_000), SoundTouchPlatform                    *)
(* (src/src/platform.ts) and SoundTouchAccessory                           *)
(* (src/homebridge-ui/server.js).                                          *)
(***************************************************************************)
EXTENDS Integers, Sequences, FiniteSets, TLC

\* ------------------------------------------------------------------ bounds
\* Number of `new WebSocket(...)` evaluations explored.
MaxSockets == 3
\* Number of update categories a single pushed frame may carry.
MaxPresent == 2
\* Number of client operations that may be under way at the same time.
MaxCalls == 2
\* How far below 0 and above 100 the levels passed to setVolume/setBass go.
LevelMargin == 50
\* Number of different services announced during one bounded browse.
MaxAnnounce == 3

\* --------------------------------------------------------------- constants
\* Upper end of the volume range.
MaxVolume == 100
\* Lower end of the volume range.
MinVolume == 0
\* First status that is a success.
StatusOkFrom == 200
\* First status above the successes.
StatusOkBelow == 300
\* Port of a service that announces none.
DefaultPort == 8090

\* --------------------------------------------------------------- variables
VARIABLES
  ws,              \* this.ws: 0 is null, otherwise the id of a socket
  isConnecting,    \* this.isConnecting
  shouldReconnect, \* this.shouldReconnect
  reconnectTimer,  \* this.reconnectTimer holds a handle (TRUE) or null (FALSE)
  pingInterval,    \* this.pingInterval holds a handle (TRUE) or null (FALSE)
  readyState,      \* readyState of every socket created so far
  opened,          \* sockets whose handshake completed ('open' was emitted)
  attempts,        \* number of times `new WebSocket` has been evaluated
  timeouts,        \* setTimeout timers armed and neither fired nor cleared
  intervals,       \* setInterval timers started and not cleared
  owed,            \* close events (reconnection enabled) not yet answered by an attempt
  hostValid,       \* whether `ws://host:port` is a URL the constructor accepts
  out,             \* events emitted to listeners by the last step, in order
  pingSent,        \* the last step sent a ping frame
  lastOp,          \* <<handler that ran last, socket it ran for (0: none)>>
  frame,           \* frame handed to handleMessage, awaiting the parser
  handled          \* frame whose handling completed in the last step

VARIABLES
  calls,           \* the invocations of client operations that are under way
  log,             \* requests put on the wire and their completions, in order
  lastEv,          \* the request event handled by the last step
  isPoweredOn,     \* the accessory's isPoweredOn
  applied          \* source of the now-playing data applied by the last step

VARIABLES
  browser,         \* SoundTouchDiscovery.browser is set: start() without stop()
  devices,         \* SoundTouchDiscovery.devices: the devices tracked, by key
  notices,         \* notifications the continuous browse made in the last step
  reported,        \* keys notified as added and not notified as removed since
  onceDevices,     \* the array discoverOnce() collects and returns
  onceOpen,        \* discoverOnce() is browsing: its timer has not fired
  heard,           \* services announced to discoverOnce() while it browsed
  lastSvc          \* the announcement handled by the last step

VARIABLES
  platform,        \* SoundTouchPlatform: its maps and where discoverDevices() is
  accessory,       \* SoundTouchAccessory: where initialize() is, destroy() calls
  deviceMute,      \* the speaker's own mute state
  xml              \* a document handed to the codec and what it was turned into

\* The variables of the push connection.
svars == <<ws, isConnecting, shouldReconnect, reconnectTimer, pingInterval,
           readyState, opened, attempts, timeouts, intervals, owed, hostValid,
           out, pingSent, lastOp, frame, handled>>

\* The variables of the HTTP client and of the accessory's power state.
cvars == <<calls, log, lastEv, isPoweredOn, applied>>

\* The variables of discovery.
dvars == <<browser, devices, notices, reported, onceDevices, onceOpen, heard,
           lastSvc>>

vars == <<svars, cvars, dvars, platform, accessory, deviceMute, xml>>

\* What the steps of one part leave alone, the accessory and the speaker
\* apart.
notStream == <<cvars, dvars, platform, deviceMute, xml>>

notClient == <<svars, dvars, platform, accessory, xml>>

notDiscovery == <<svars, cvars, accessory, deviceMute, xml>>

Sockets == 1..MaxSockets

ReadyStates == {"NONE", "CONNECTING", "OPEN", "CLOSING", "CLOSED"}

\* The object and what it owns, as one record.
This ==
  [ws |-> ws, isConnecting |-> isConnecting, shouldReconnect |-> shouldReconnect,
   reconnectTimer |-> reconnectTimer, pingInterval |-> pingInterval,
   readyState |-> readyState, attempts |-> attempts, timeouts |-> timeouts,
   intervals |-> intervals, out |-> <<>>]

\* The step leaves the object as o.
Becomes(o) ==
  /\ ws' = o.ws
  /\ isConnecting' = o.isConnecting
  /\ shouldReconnect' = o.shouldReconnect
  /\ reconnectTimer' = o.reconnectTimer
  /\ pingInterval' = o.pingInterval
  /\ readyState' = o.readyState
  /\ attempts' = o.attempts
  /\ timeouts' = o.timeouts
  /\ intervals' = o.intervals
  /\ out' = o.out
  /\ UNCHANGED hostValid
  /\ UNCHANGED notStream

\* this.emit(event)
emit(o, event) == [o EXCEPT !.out = Append(@, event)]

\* ------------------------------------------------------- private methods
cleanup(o) ==
  LET o1 == IF o.pingInterval
            THEN [o EXCEPT !.pingInterval = FALSE, !.intervals = @ - 1]
            ELSE o
  IN IF o1.reconnectTimer
     THEN [o1 EXCEPT !.reconnectTimer = FALSE, !.timeouts = @ - 1]
     ELSE o1

startPing(o) ==
  [o EXCEPT !.pingInterval = TRUE, !.intervals = @ + 1]

\* scheduleReconnect without the test of the pending timer
scheduleReconnect_NoPendingTest(o) ==
  IF ~o.shouldReconnect
  THEN o
  ELSE [o EXCEPT !.reconnectTimer = TRUE, !.timeouts = @ + 1]

\* scheduleReconnect without the test of shouldReconnect
scheduleReconnect_NoEnabledTest(o) ==
  IF o.reconnectTimer
  THEN o
  ELSE [o EXCEPT !.reconnectTimer = TRUE, !.timeouts = @ + 1]

\* scheduleReconnect that gives up after the second attempt
scheduleReconnect_Capped(o) ==
  IF ~o.shouldReconnect \/ o.reconnectTimer \/ o.attempts >= 2
  THEN o
  ELSE [o EXCEPT !.reconnectTimer = TRUE, !.timeouts = @ + 1]

scheduleReconnect(o) ==
  IF ~o.shouldReconnect \/ o.reconnectTimer
  THEN o
  ELSE [o EXCEPT !.reconnectTimer = TRUE, !.timeouts = @ + 1]

\* ------------------------------------------------------------ public API
\* connect whose guard tests isConnecting only
connect_IgnoresSocket(o) ==
  IF o.isConnecting
  THEN o
  ELSE LET o1 == [o EXCEPT !.isConnecting = TRUE, !.shouldReconnect = TRUE,
                           !.attempts = @ + 1]
           id == o1.attempts
       IN IF hostValid
          THEN [o1 EXCEPT !.ws = id, !.readyState[id] = "CONNECTING"]
          ELSE scheduleReconnect(
                 emit([o1 EXCEPT !.isConnecting = FALSE], "error"))

connect(o) ==
  IF o.ws # 0 \/ o.isConnecting
  THEN o
  ELSE LET o1 == [o EXCEPT !.isConnecting = TRUE, !.shouldReconnect = TRUE,
                           !.attempts = @ + 1]
           id == o1.attempts
       IN IF hostValid
          THEN [o1 EXCEPT !.ws = id, !.readyState[id] = "CONNECTING"]
          ELSE \* the constructor throws: catch branch
               scheduleReconnect(
                 emit([o1 EXCEPT !.isConnecting = FALSE], "error"))

disconnect(o) ==
  LET o1 == cleanup([o EXCEPT !.shouldReconnect = FALSE])
  IN IF o1.ws # 0
     THEN [o1 EXCEPT !.readyState[o1.ws] =
                        IF @ \in {"CONNECTING", "OPEN"} THEN "CLOSING" ELSE @,
                     !.ws = 0]
     ELSE o1

\* ------------------------------------------------- handlers of one socket
onOpen(o) ==
  startPing(emit([o EXCEPT !.isConnecting = FALSE], "connected"))

onError_Reconnects(o) == scheduleReconnect(emit(o, "error"))

onError(o) == emit(o, "error")

onClose(o) ==
  scheduleReconnect(
    emit(cleanup([o EXCEPT !.isConnecting = FALSE]), "disconnected"))

\* callback of the reconnect timer
onReconnectTimer(o) ==
  connect([o EXCEPT !.reconnectTimer = FALSE, !.ws = 0, !.timeouts = @ - 1])

\* callback of the heartbeat interval: whether a ping is sent
pingTick(o) == o.ws # 0 /\ o.readyState[o.ws] = "OPEN"

\* ---------------------------------------------------------- handleMessage
\* The keys handleMessage looks for under <updates>, in the order it does.
Categories ==
  <<"volumeUpdated", "nowPlayingUpdated", "presetsUpdated", "zoneUpdated",
    "bassUpdated", "connectionStateUpdated">>

CategoryIds == 1..6

\* The event emitted for a key.
EventOf(c) ==
  IF Categories[c] = "presetsUpdated" THEN "presetUpdated" ELSE Categories[c]

\* What a key of <updates> may look like after parsing:
\*   absent  the key is missing (or an empty element, which parses to "")
\*   ok      the key and every element and attribute the decoder reads exist
\*   bad     the key is there, but an element or the attributes ($) that the
\*           decoder dereferences are missing
Shapes == {"absent", "ok", "bad"}

\* Whether decoding a key of shape sh throws: a property of undefined is
\* read (vol.targetvolume, np.$.source, presets.preset, p.$.id, m.$.ipaddress,
\* zone.$.master, bass.targetbass, state.$.state).
Throws(sh) == sh = "bad"

AllAbsent == [c \in CategoryIds |-> "absent"]

\* No frame.
NoFrame == [kind |-> "none", cats |-> AllAbsent]

Present(cats) == {c \in CategoryIds : cats[c] # "absent"}

\* Frames a socket may deliver: text that is not XML ("garbage"), XML with
\* another root ("other"), and <updates> with up to MaxPresent keys.
Frames ==
  {[kind |-> k, cats |-> AllAbsent] : k \in {"garbage", "other"}}
  \cup {[kind |-> "updates", cats |-> cs] :
          cs \in {x \in [CategoryIds -> Shapes] :
                    Cardinality(Present(x)) <= MaxPresent}}

\* decodeFrom that stops at the first missing key
RECURSIVE decodeFrom_StopsAtAbsent(_, _)
decodeFrom_StopsAtAbsent(cats, i) ==
  IF i > 6 THEN <<>>
  ELSE IF cats[i] = "absent" THEN <<>>
  ELSE IF Throws(cats[i]) THEN <<>>
  ELSE <<EventOf(i)>> \o decodeFrom_StopsAtAbsent(cats, i + 1)

\* The events the body of the try block emits from key i onwards.
RECURSIVE decodeFrom(_, _)
decodeFrom(cats, i) ==
  IF i > 6 THEN <<>>
  ELSE IF cats[i] = "absent" THEN decodeFrom(cats, i + 1)
  ELSE IF Throws(cats[i]) THEN <<>>
  ELSE <<EventOf(i)>> \o decodeFrom(cats, i + 1)

handleMessage(o, f) ==
  IF f.kind = "updates"
  THEN [o EXCEPT !.out = @ \o decodeFrom(f.cats, 1)]
  ELSE o

\* ------------------------------------------------------------------- Init
\* ================================================= Part 2: the HTTP client
\* Sample of KeyValue.
Keys == {"PLAY", "MUTE", "POWER"}

\* Invocations that may be under way at the same time.
Calls == 1..MaxCalls

\* A level is carried as a count of halves, so that fractional levels exist:
\* level = h / 2 for h in Levels.
Levels == (-2 * LevelMargin)..(2 * (MaxVolume + LevelMargin))

\* res.statusCode of a response; 0 stands for a response without a status.
Statuses == {0, 199, 200, 204, 299, 300, 404, 500}

\* Response bodies: text that is not XML, an empty body, <volume> with its
\* muteenabled text, <nowPlaying> with its source attribute, <status>.
Malformed == [doc |-> "malformed", val |-> ""]

Bodies ==
  {Malformed, [doc |-> "empty", val |-> ""], [doc |-> "status", val |-> ""]}
    \cup [doc : {"volume"}, val : {"true", "false"}]
    \cup [doc : {"nowPlaying"}, val : {"STANDBY", "TUNEIN"}]

\* What a request can report: the end of a response, 'error', 'timeout'.
Events ==
  [type : {"end"}, status : Statuses, body : Bodies]
    \cup [type : {"error", "timeout"}, status : {0}, body : {Malformed}]

NoEv == [call |-> 0, type |-> "none", status |-> 0, body |-> Malformed]

\* Body of a request: a key state, an encoded level, or nothing.
Body(tag, key, value) == [tag |-> tag, key |-> key, value |-> value]

NoBody == Body("", "", 0)

NoRequest ==
  [call |-> 0, dir |-> "out", method |-> "", path |-> "", body |-> NoBody,
   ok |-> FALSE]

\* The promise request() returns.
NoPromise == [state |-> "none", settles |-> 0]

\* One invocation: the operation and its arguments, the await it is suspended
\* at (pc), the request it awaits (cur, promise, req), counters, and the text
\* a query read from the device (value).
NoCall ==
  [op |-> "none", key |-> "", muted |-> FALSE, level |-> 0, pc |-> "idle",
   cur |-> NoRequest, promise |-> NoPromise, req |-> "none",
   nsent |-> 0, resumed |-> 0, value |-> ""]

\* The invocations and the wire, as one record.
Client == [calls |-> calls, log |-> log]

\* Math.round of h / 2
MathRound(h) == (h + 1) \div 2

Min(a, b) == IF a < b THEN a ELSE b

Max(a, b) == IF a > b THEN a ELSE b

\* ------------------------------------------------------------- request()
httpOk_NoUpperLimit(status) == status # 0 /\ status >= StatusOkFrom

\* the test of res.statusCode in the 'end' handler
httpOk(status) == status # 0 /\ status >= StatusOkFrom /\ status < StatusOkBelow

\* A promise settles once: resolve and reject of a settled promise do nothing.
resolve(p) ==
  IF p.state = "pending"
  THEN [state |-> "resolved", settles |-> p.settles + 1]
  ELSE p

reject_Again(p) == [state |-> "rejected", settles |-> p.settles + 1]

reject(p) ==
  IF p.state = "pending"
  THEN [state |-> "rejected", settles |-> p.settles + 1]
  ELSE p

\* res.on('end')
onEnd(p, status) == IF httpOk(status) THEN resolve(p) ELSE reject(p)

\* req.on('error', reject)
onRequestError(p) == reject(p)

\* req.on('timeout'): req.destroy(), then reject
onTimeout(p) == reject(p)

\* request(method, path, body) up to its return: the request goes out.
request(k, c, method, path, body) ==
  LET r == [call |-> c, dir |-> "out", method |-> method, path |-> path,
            body |-> body, ok |-> FALSE]
  IN [k EXCEPT !.log = Append(@, r),
               !.calls[c].cur = r,
               !.calls[c].promise = [state |-> "pending", settles |-> 0],
               !.calls[c].req = "inflight",
               !.calls[c].nsent = @ + 1]

get(k, c, path) == request(k, c, "GET", path, NoBody)

post(k, c, path, body) == request(k, c, "POST", path, body)

\* parseStringPromise(xml) fulfils
parses(body) == body.doc # "malformed"

\* ---------------------------------------------------------- operations
\* The async function returns normally / throws to its caller.
finish(k, c) == [k EXCEPT !.calls[c].pc = "done"]

fail(k, c) == [k EXCEPT !.calls[c].pc = "failed"]

\* pressKey(key) up to `await this.post('/key', pressXml)`
pressKey(k, c, key) ==
  [post(k, c, "/key", Body("press", key, 0))
     EXCEPT !.calls[c].pc = "press", !.calls[c].key = key]

pressKey_ReleasesAnyway(k, c, ok) ==
  [post(k, c, "/key", Body("release", k.calls[c].key, 0))
     EXCEPT !.calls[c].pc = "release"]

\* pressKey resumed by the press request: an exception leaves the function,
\* otherwise `await this.post('/key', releaseXml)`
pressKey_afterPress(k, c, ok) ==
  IF ok
  THEN [post(k, c, "/key", Body("release", k.calls[c].key, 0))
          EXCEPT !.calls[c].pc = "release"]
  ELSE fail(k, c)

\* power() and mute()
power(k, c) == pressKey(k, c, "POWER")

mute(k, c) == pressKey(k, c, "MUTE")

\* getVolume() and getNowPlaying() up to `await this.get(...)`
getVolume(k, c) == [get(k, c, "/volume") EXCEPT !.calls[c].pc = "getVolume"]

getNowPlaying(k, c) ==
  [get(k, c, "/now_playing") EXCEPT !.calls[c].pc = "getNowPlaying"]

\* what getVolume() and getNowPlaying() return for a decoded body
getVolume_result(body) == [muteenabled |-> body.val = "true"]

getNowPlaying_result(body) == [source |-> body.val]

setVolume_Unclamped(k, c, level) ==
  [post(k, c, "/volume", Body("volume", "", MathRound(level)))
     EXCEPT !.calls[c].pc = "post"]

\* setVolume(level), setBass(level): the body is built, then `await this.post`
setVolume(k, c, level) ==
  [post(k, c, "/volume",
        Body("volume", "", Max(MinVolume, Min(MaxVolume, MathRound(level)))))
     EXCEPT !.calls[c].pc = "post"]

setBass(k, c, level) ==
  [post(k, c, "/bass", Body("bass", "", MathRound(level)))
     EXCEPT !.calls[c].pc = "post"]

\* setMute(muted), powerOn(), powerOff() up to their first await
setMute(k, c) == getVolume(k, c)

powerOn(k, c) == getNowPlaying(k, c)

powerOff(k, c) == getNowPlaying(k, c)

\* ... and resumed with the state that was queried
setMute_AlwaysToggles(k, c, volume) == mute(k, c)

setMute_afterGetVolume(k, c, volume) ==
  IF volume.muteenabled # k.calls[c].muted THEN mute(k, c) ELSE finish(k, c)

powerOn_afterGetNowPlaying(k, c, nowPlaying) ==
  IF nowPlaying.source = "STANDBY" THEN power(k, c) ELSE finish(k, c)

powerOff_Unconditional(k, c, nowPlaying) == power(k, c)

powerOff_afterGetNowPlaying(k, c, nowPlaying) ==
  IF nowPlaying.source # "STANDBY" THEN power(k, c) ELSE finish(k, c)

\* The arguments an operation is invoked with.
Invocations ==
  [op : {"pressKey"}, key : Keys, muted : {FALSE}, level : {0}]
    \cup [op : {"setMute"}, key : {""}, muted : BOOLEAN, level : {0}]
    \cup [op : {"powerOn", "powerOff", "getVolume", "getNowPlaying"},
          key : {""}, muted : {FALSE}, level : {0}]
    \cup [op : {"setVolume", "setBass"}, key : {""}, muted : {FALSE},
          level : Levels]

\* An operation is called: it runs up to its first await.
invoke(k, c, inv) ==
  LET k0 == [k EXCEPT !.calls[c] =
               [NoCall EXCEPT !.op = inv.op, !.key = inv.key,
                              !.muted = inv.muted, !.level = inv.level]]
  IN CASE inv.op = "pressKey" -> pressKey(k0, c, inv.key)
       [] inv.op = "setMute" -> setMute(k0, c)
       [] inv.op = "powerOn" -> powerOn(k0, c)
       [] inv.op = "powerOff" -> powerOff(k0, c)
       [] inv.op = "getVolume" -> getVolume(k0, c)
       [] inv.op = "getNowPlaying" -> getNowPlaying(k0, c)
       [] inv.op = "setVolume" -> setVolume(k0, c, inv.level)
       [] inv.op = "setBass" -> setBass(k0, c, inv.level)

\* The await the call is suspended at is resumed: ok when the request was
\* resolved and its body parsed, with the body that came.
resume(k, c, ok, body) ==
  LET cl == k.calls[c] IN
  CASE cl.pc = "press" -> pressKey_afterPress(k, c, ok)
    [] cl.pc \in {"release", "post"} -> IF ok THEN finish(k, c) ELSE fail(k, c)
    [] cl.pc = "getVolume" ->
         IF ok /\ body.doc = "volume"
         THEN LET k1 == [k EXCEPT !.calls[c].value = body.val] IN
              IF cl.op = "setMute"
              THEN setMute_afterGetVolume(k1, c, getVolume_result(body))
              ELSE finish(k1, c)
         ELSE fail(k, c)
    [] cl.pc = "getNowPlaying" ->
         IF ok /\ body.doc = "nowPlaying"
         THEN LET k1 == [k EXCEPT !.calls[c].value = body.val] IN
              CASE cl.op = "powerOn" ->
                     powerOn_afterGetNowPlaying(k1, c, getNowPlaying_result(body))
                [] cl.op = "powerOff" ->
                     powerOff_afterGetNowPlaying(k1, c, getNowPlaying_result(body))
                [] OTHER -> finish(k1, c)
         ELSE fail(k, c)
    [] OTHER -> k

\* The request call c awaits reports ev. When that settles the promise, the
\* completion goes to the log and the call is resumed.
deliver(k, c, ev) ==
  LET cl == k.calls[c]
      p == CASE ev.type = "end" -> onEnd(cl.promise, ev.status)
             [] ev.type = "error" -> onRequestError(cl.promise)
             [] ev.type = "timeout" -> onTimeout(cl.promise)
      k1 == [k EXCEPT !.calls[c].promise = p,
                      !.calls[c].req =
                         IF ev.type = "timeout" THEN "destroyed" ELSE "none"]
  IN IF p.settles > cl.promise.settles
     THEN LET ok == p.state = "resolved" /\ parses(ev.body)
              k2 == [k1 EXCEPT !.log = Append(@, [cl.cur EXCEPT !.dir = "in",
                                                                !.ok = ok]),
                               !.calls[c].resumed = @ + 1]
          IN resume(k2, c, ok, ev.body)
     ELSE k1

poweredOn_Always(source) == TRUE

\* the accessory's classification of a source
poweredOn(source) == source # "STANDBY"

\* ==================================================== Part 3: discovery
\* Addresses a service may advertise, by shape.
\* The services a browser may report: name, host name, addresses, port
\* (0: none).
Services ==
  [name : {"Bose", "BOSE"},
   host : {"bose.local"},
   addresses : {<<>>, <<"10.0.0.1">>, <<"10.0.0.2">>, <<"fe80::1">>,
                <<"fe80::1", "10.0.0.1">>, <<"10.0.0.1", "10.0.0.2">>},
   port : {0, 8091}]

NoSvc ==
  [kind |-> "none",
   service |-> [name |-> "", host |-> "", addresses |-> <<>>, port |-> 0]]

\* const host = service.addresses.find((addr) => !addr.includes(':'))
\*              || service.addresses[0]
\* find gives the first address that passes the test; of the addresses
\* announced here, "fe80::1" includes ':'.
pickHost(service) ==
  LET is == {i \in DOMAIN service.addresses : service.addresses[i] # "fe80::1"}
  IN IF is = {}
     THEN service.addresses[1]
     ELSE service.addresses[CHOOSE i \in is : \A j \in is : i <= j]

\* the DiscoveredDevice built from a service that has addresses
deviceOf(service) ==
  [name |-> service.name,
   host |-> pickHost(service),
   port |-> IF service.port # 0 THEN service.port ELSE DefaultPort]

\* `${host}:${port}`
keyOf(host, port) == <<host, port>>

\* The discovery object: its map and what its callbacks were called with.
Disco == [devices |-> devices, notices |-> <<>>]

\* handleServiceUp(service): this.devices is a map from keys to devices
handleServiceUp_NotifiesAgain(d, service) ==
  IF Len(service.addresses) = 0
  THEN d
  ELSE LET device == deviceOf(service)
           key == keyOf(device.host, device.port)
       IN [d EXCEPT !.devices = [k \in DOMAIN @ \cup {key} |->
                                   IF k = key THEN device ELSE @[k]],
                    !.notices = Append(@, [kind |-> "added", device |-> device])]

handleServiceUp_Silent(d, service) ==
  IF Len(service.addresses) = 0
  THEN d
  ELSE LET device == deviceOf(service)
           key == keyOf(device.host, device.port)
       IN [d EXCEPT !.devices = [k \in DOMAIN @ \cup {key} |->
                                   IF k = key THEN device ELSE @[k]]]

handleServiceUp(d, service) ==
  IF Len(service.addresses) = 0
  THEN d
  ELSE LET device == deviceOf(service)
           key == keyOf(device.host, device.port)
       IN IF key \notin DOMAIN d.devices
          THEN [d EXCEPT !.devices = [k \in DOMAIN @ \cup {key} |->
                                         IF k = key THEN device ELSE @[k]],
                         !.notices = Append(@, [kind |-> "added",
                                                device |-> device])]
          ELSE d

\* the loop of handleServiceDown from address i on
RECURSIVE downFrom(_, _, _)
downFrom(d, service, i) ==
  IF i > Len(service.addresses)
  THEN d
  ELSE LET key == keyOf(service.addresses[i],
                        IF service.port # 0 THEN service.port ELSE DefaultPort)
       IN IF key \in DOMAIN d.devices
          THEN downFrom([d EXCEPT !.devices = [k \in DOMAIN @ \ {key} |-> @[k]],
                                  !.notices = Append(@, [kind |-> "removed",
                                                  device |-> d.devices[key]])],
                        service, i + 1)
          ELSE downFrom(d, service, i + 1)

handleServiceDown(d, service) == downFrom(d, service, 1)

\* the callback discoverOnce() gives to the browser
discoverOnce_KeepsAll(found, service) ==
  IF Len(service.addresses) = 0
  THEN found
  ELSE Append(found, deviceOf(service))

discoverOnce_onService(found, service) ==
  IF Len(service.addresses) = 0
  THEN found
  ELSE LET device == deviceOf(service)
           exists == \E i \in DOMAIN found :
                       found[i].host = device.host /\ found[i].port = device.port
       IN IF ~exists THEN Append(found, device) ELSE found

\* The platform before didFinishLaunching: no device configured or registered.
\* pc is where discoverDevices() is; published lists the accessories handed
\* to publishExternalAccessories; cleaned tells that cleanup() has run.
NoPlatform ==
  [pc |-> "idle", config |-> <<>>, configuredDevices |-> <<>>,
   soundTouchAccessories |-> <<>>, externalAccessories |-> <<>>,
   published |-> <<>>, cleaned |-> FALSE]

\* config.devices of the platform: entries with the same host, without host,
\* with a blank host.
Configs ==
  LET living == [name |-> "Living", host |-> "10.0.0.1", deviceIcon |-> "TV"]
      kitchen == [name |-> "Kitchen", host |-> "10.0.0.1", deviceIcon |-> "SPEAKER"]
      den == [name |-> "Den", host |-> "", deviceIcon |-> "TV"]
      bath == [name |-> "Bath", host |-> " ", deviceIcon |-> "TV"]
  IN {<<>>, <<living>>, <<den, bath>>, <<living, kitchen>>, <<den, living>>}

\* configuredDevices.set(device.host, device) for the devices from i on; a
\* Map keeps the place of a key that is set again. With overwrite FALSE the
\* set is guarded by `!configuredDevices.has(device.host)`.
RECURSIVE setFrom(_, _, _, _)
setFrom(m, devs, i, overwrite) ==
  IF i > Len(devs)
  THEN m
  ELSE LET at == {j \in DOMAIN m : m[j].host = devs[i].host}
       IN setFrom(IF at = {} THEN Append(m, devs[i])
                  ELSE IF overwrite
                       THEN [m EXCEPT ![CHOOSE j \in at : TRUE] = devs[i]]
                       ELSE m,
                  devs, i + 1, overwrite)

\* the discovered devices join the configured ones, as DeviceConfig with
\* name and host only
merge_Overwrites(m, discovered) ==
  setFrom(m, [i \in DOMAIN discovered |->
                [name |-> discovered[i].name, host |-> discovered[i].host,
                 deviceIcon |-> ""]], 1, TRUE)

merge(m, discovered) ==
  setFrom(m, [i \in DOMAIN discovered |->
                [name |-> discovered[i].name, host |-> discovered[i].host,
                 deviceIcon |-> ""]], 1, FALSE)

registerDevice_Again(p, device) ==
  LET set(m) == [h \in DOMAIN m \cup {device.host} |->
                   IF h = device.host THEN device ELSE m[h]]
  IN [p EXCEPT !.soundTouchAccessories = set(@),
               !.externalAccessories = set(@),
               !.published = Append(@, device)]

registerDevice(p, device) ==
  IF device.host \in DOMAIN p.externalAccessories
  THEN p
  ELSE LET set(m) == [h \in DOMAIN m \cup {device.host} |->
                        IF h = device.host THEN device ELSE m[h]]
       IN [p EXCEPT !.soundTouchAccessories = set(@),
                    !.externalAccessories = set(@),
                    !.published = Append(@, device)]

\* for (const device of configuredDevices.values()) this.registerDevice(device)
RECURSIVE registerFrom(_, _)
registerFrom(p, i) ==
  IF i > Len(p.configuredDevices)
  THEN p
  ELSE registerFrom(registerDevice(p, p.configuredDevices[i]), i + 1)

\* the callback discoverDevices() gives to start() for a device found
onDeviceFound(p, device) ==
  IF device.host \notin DOMAIN p.soundTouchAccessories
  THEN registerDevice(p, [name |-> device.name, host |-> device.host,
                          deviceIcon |-> ""])
  ELSE p

\* storePreset() and playContent(): the ContentItem element that
\* builder.buildObject writes, its attributes and its itemName child, the
\* text escaped. "undefined" stands for a value or a child that is missing.
encode(item) ==
  LET esc(t) == IF t = "a&b" THEN "a&amp;b" ELSE t
  IN [source |-> esc(item.source),
      location |-> esc(item.location),
      sourceAccount |-> IF item.sourceAccount \in {"", "undefined"}
                        THEN ""
                        ELSE esc(item.sourceAccount),
      isPresetable |-> "true",
      itemName |-> IF item.name \in {"", "undefined"}
                   THEN "undefined"
                   ELSE esc(item.name)]

\* getPresets() and getNowPlaying(): the content item read from the parsed
\* ContentItem element; an attribute that is not there reads as undefined.
decode(element) ==
  LET unesc(t) == IF t = "a&amp;b" THEN "a&b" ELSE t
      attr(a) == IF a \in DOMAIN element THEN unesc(element[a]) ELSE "undefined"
  IN [source |-> attr("source"),
      type |-> attr("type"),
      location |-> attr("location"),
      sourceAccount |-> attr("sourceAccount"),
      isPresetable |-> attr("isPresetable") = "true",
      name |-> attr("itemName")]

\* Array.isArray(x) ? x : [x], after the test that x is there: the field as
\* the parser left it is absent, one object, or an array
normalize(field) == IF field.shape = "absent" THEN <<>> ELSE field.items

\* getInfo(): the network info selected from info.networkInfo
wifiInfo(field) ==
  LET found == IF field.shape = "array"
               THEN SelectSeq(field.items, LAMBDA n : n.type = "WIFI")
               ELSE field.items
  IN IF field.shape = "absent" \/ found = <<>>
     THEN <<>>
     ELSE <<[ssid |-> found[1].ssid, macAddress |-> found[1].macAddress]>>

\* The state of discovery, the platform, the accessory and the speaker
\* after construction.
InitDiscovery ==
  /\ browser = FALSE
  /\ devices = <<>>
  /\ notices = <<>>
  /\ reported = {}
  /\ onceDevices = <<>>
  /\ onceOpen = FALSE
  /\ heard = {}
  /\ lastSvc = NoSvc
  /\ platform = NoPlatform
  /\ accessory = [pc |-> "none", destroyed |-> FALSE]
  /\ deviceMute = FALSE
  /\ xml = [op |-> "none"]

\* --------------------------------------- the state after construction
InitClient ==
  /\ calls = [c \in Calls |-> NoCall]
  /\ log = <<>>
  /\ lastEv = NoEv
  /\ isPoweredOn = FALSE
  /\ applied = "none"

InitStream ==
  /\ ws = 0
  /\ isConnecting = FALSE
  /\ shouldReconnect = TRUE
  /\ reconnectTimer = FALSE
  /\ pingInterval = FALSE
  /\ readyState = [s \in Sockets |-> "NONE"]
  /\ opened = {}
  /\ attempts = 0
  /\ timeouts = 0
  /\ intervals = 0
  /\ owed = 0
  /\ hostValid \in BOOLEAN
  /\ out = <<>>
  /\ pingSent = FALSE
  /\ lastOp = <<"new", 0>>
  /\ frame = NoFrame
  /\ handled = NoFrame

Init == InitStream /\ InitClient /\ InitDiscovery

\* -------------------------------------------------------------- actions
\* A step that is not the heartbeat and not the end of handleMessage.
Ran(op, s) ==
  /\ lastOp' = <<op, s>>
  /\ opened' = IF op = "open" THEN opened \cup {s} ELSE opened
  /\ pingSent' = FALSE
  /\ handled' = NoFrame
  /\ UNCHANGED accessory

\* The application calls connect().
Connect ==
  LET o == connect(This) IN
  /\ o.attempts <= MaxSockets
  /\ Becomes(o)
  /\ UNCHANGED owed
  /\ Ran("connect", 0)
  /\ UNCHANGED frame

\* The application calls disconnect().
Disconnect ==
  /\ Becomes(disconnect(This))
  /\ owed' = 0
  /\ Ran("disconnect", 0)
  /\ UNCHANGED frame

\* The continuation of handleMessage runs before any other callback.
Idle == frame = NoFrame

\* Socket s completes its handshake: 'open'.
SocketOpen(s) ==
  /\ Idle
  /\ readyState[s] = "CONNECTING"
  /\ Becomes(onOpen([This EXCEPT !.readyState[s] = "OPEN"]))
  /\ UNCHANGED owed
  /\ Ran("open", s)
  /\ UNCHANGED frame

\* Socket s fails (handshake or transport): 'error'; 'close' follows.
SocketError(s) ==
  /\ Idle
  /\ readyState[s] \in {"CONNECTING", "OPEN"}
  /\ Becomes(onError([This EXCEPT !.readyState[s] = "CLOSING"]))
  /\ UNCHANGED owed
  /\ Ran("error", s)
  /\ UNCHANGED frame

\* Socket s is closed (by the peer, after an error, or after close()): 'close'.
SocketClose(s) ==
  /\ Idle
  /\ readyState[s] \in {"OPEN", "CLOSING"}
  /\ Becomes(onClose([This EXCEPT !.readyState[s] = "CLOSED"]))
  /\ owed' = IF shouldReconnect THEN owed + 1 ELSE owed
  /\ Ran("close", s)
  /\ UNCHANGED frame

\* The reconnect delay of a pending timer elapses.
ReconnectTimerFires ==
  LET o == onReconnectTimer(This) IN
  /\ Idle
  /\ timeouts > 0
  /\ o.attempts <= MaxSockets
  /\ Becomes(o)
  /\ owed' = IF o.attempts > attempts /\ owed > 0 THEN owed - 1 ELSE owed
  /\ Ran("reconnectTimer", 0)
  /\ UNCHANGED frame

\* A heartbeat interval elapses.
PingTick ==
  /\ Idle
  /\ intervals > 0
  /\ pingSent' = pingTick(This)
  /\ lastOp' = <<"pingTick", 0>>
  /\ out' = <<>>
  /\ handled' = NoFrame
  /\ UNCHANGED <<ws, isConnecting, shouldReconnect, reconnectTimer,
                 pingInterval, readyState, opened, attempts, timeouts,
                 intervals, owed, hostValid, frame, accessory>>
  /\ UNCHANGED notStream

\* A socket that is open, or was open and is closing, delivers frame f:
\* 'message' calls handleMessage, which suspends at the await of the parser.
\* Every socket carries the same handler, so the socket is not recorded.
SocketMessage(f) ==
  /\ Idle
  /\ \E s \in opened : readyState[s] \in {"OPEN", "CLOSING"}
  /\ frame' = f
  /\ Becomes(This)
  /\ UNCHANGED owed
  /\ Ran("message", 0)

\* handleMessage resumes with the parser's result.
MessageParsed ==
  /\ frame # NoFrame
  /\ Becomes(handleMessage(This, frame))
  /\ handled' = frame
  /\ frame' = NoFrame
  /\ lastOp' = <<"handleMessage", 0>>
  /\ pingSent' = FALSE
  /\ UNCHANGED <<owed, opened, accessory>>

\* The connection machine without frames.
NextConn ==
  \/ Connect
  \/ Disconnect
  \/ \E s \in Sockets : SocketOpen(s)
  \/ \E s \in Sockets : SocketError(s)
  \/ \E s \in Sockets : SocketClose(s)
  \/ ReconnectTimerFires
  \/ PingTick

Next ==
  \/ NextConn
  \/ \E f \in Frames : SocketMessage(f)
  \/ MessageParsed

Spec == Init /\ [][Next]_vars

\* One connection that stays up and the frames it delivers.
NextFrames ==
  \/ Connect
  \/ \E s \in Sockets : SocketOpen(s)
  \/ \E f \in Frames : SocketMessage(f)
  \/ MessageParsed

SpecFrames == Init /\ [][NextFrames]_vars

\* The connection machine alone.
SpecConn == Init /\ [][NextConn]_vars

\* The runtime runs the callback of a pending timeout once its delay is over.
FairSpecConn ==
  Init /\ [][NextConn]_vars /\ WF_vars(ReconnectTimerFires)

TypeOK ==
  /\ ws \in 0..MaxSockets
  /\ readyState \in [Sockets -> ReadyStates]
  /\ attempts \in 0..MaxSockets
  /\ timeouts \in 0..MaxSockets
  /\ intervals \in 0..MaxSockets

\* ------------------------------------------------- the connection state
\* ConnectionState as the fields of the object give it.
ConnState ==
  IF reconnectTimer THEN "ReconnectPending"
  ELSE IF ws = 0 THEN "Disconnected"
  ELSE IF isConnecting THEN "Connecting"
  ELSE "Connected"

\* Sockets whose handshake is under way or done, and that are not closing.
LiveSockets == {s \in Sockets : readyState[s] \in {"CONNECTING", "OPEN"}}

\* The fields of the object and the timers and sockets it owns.
fields == <<ws, isConnecting, shouldReconnect, reconnectTimer, pingInterval,
            readyState, opened, attempts, timeouts, intervals>>

\* ------------------------------------------------ actions of the client
ClientBecomes(k) ==
  /\ calls' = k.calls
  /\ log' = k.log

\* No invocation is under way.
Quiet ==
  \A d \in Calls : calls[d].pc \in {"idle", "done", "failed"}
                   /\ calls[d].req = "none"

\* The application invokes an operation as call c. The log covers the calls
\* that overlap: it starts afresh when nothing is under way.
Invoke(c, inv) ==
  /\ IF Quiet
     THEN ClientBecomes(invoke([calls |-> [d \in Calls |-> NoCall],
                                log |-> <<>>], c, inv))
     ELSE /\ calls[c].pc = "idle"
          /\ ClientBecomes(invoke(Client, c, inv))
  /\ lastEv' = NoEv
  /\ applied' = "none"
  /\ UNCHANGED isPoweredOn
  /\ UNCHANGED <<deviceMute, notClient>>

\* The request call c awaits reports ev; a request destroyed by its timeout
\* still reports 'error'.
RequestEvent(c, ev) ==
  /\ \/ calls[c].req = "inflight"
     \/ calls[c].req = "destroyed" /\ ev.type = "error"
  /\ ClientBecomes(deliver(Client, c, ev))
  /\ lastEv' = [call |-> c, type |-> ev.type, status |-> ev.status,
                body |-> ev.body]
  /\ applied' = "none"
  /\ UNCHANGED isPoweredOn
  /\ UNCHANGED <<deviceMute, notClient>>

\* Sources a pushed now-playing update may name.
Sources == {"STANDBY", "TUNEIN", "BLUETOOTH"}

\* The accessory's listener of 'nowPlayingUpdated' runs.
NowPlayingUpdated(source) ==
  /\ isPoweredOn' = poweredOn(source)
  /\ applied' = source
  /\ lastEv' = NoEv
  /\ UNCHANGED <<calls, log>>
  /\ UNCHANGED <<deviceMute, notClient>>

\* refreshState() resumes with the result of the getNowPlaying() it made.
RefreshState(c) ==
  /\ calls[c].op = "getNowPlaying"
  /\ calls[c].pc = "done"
  /\ isPoweredOn' = poweredOn(calls[c].value)
  /\ applied' = calls[c].value
  /\ calls' = [calls EXCEPT ![c] = NoCall]
  /\ lastEv' = NoEv
  /\ UNCHANGED log
  /\ UNCHANGED <<deviceMute, notClient>>

\* One operation at a time, with every outcome of its requests; levels below,
\* inside and above the volume range, whole and fractional.
SampleLevels == {-3, 0, 85, 2 * MaxVolume + 2}

CallInvocations == {inv \in Invocations : inv.level \in SampleLevels}

NextCall ==
  \/ \E inv \in CallInvocations : Invoke(1, inv)
  \/ \E ev \in Events : RequestEvent(1, ev)

SpecCall == Init /\ [][NextCall]_vars

\* Every level, with a request that succeeds or fails.
LevelInvocations == {inv \in Invocations : inv.op \in {"setVolume", "setBass"}}

LevelEvents ==
  {ev \in Events : ev.status \in {0, 200} /\ ev.body.doc \in {"malformed", "status"}
                   /\ ev.type # "timeout"
                   /\ (ev.status = 200 <=> ev.body.doc = "status")}

NextLevels ==
  \/ \E inv \in LevelInvocations : Invoke(1, inv)
  \/ \E ev \in LevelEvents : RequestEvent(1, ev)

SpecLevels == Init /\ [][NextLevels]_vars

\* Key presses that overlap.
KeyInvocations == {inv \in Invocations : inv.op = "pressKey"}

KeyEvents ==
  {ev \in Events : ev.status \in {0, 200, 500} /\ ev.body.doc \in {"malformed", "status"}}

NextKeys ==
  \E c \in Calls :
    \/ \E inv \in KeyInvocations : Invoke(c, inv)
    \/ \E ev \in KeyEvents : RequestEvent(c, ev)

SpecKeys == Init /\ [][NextKeys]_vars

\* The power operations and the accessory's view of the power state.
PowerInvocations ==
  {inv \in Invocations : inv.op \in {"powerOn", "powerOff", "getNowPlaying"}}

NextPower ==
  \/ \E inv \in PowerInvocations : Invoke(1, inv)
  \/ \E ev \in Events : RequestEvent(1, ev)
  \/ \E source \in Sources : NowPlayingUpdated(source)
  \/ RefreshState(1)

SpecPower == Init /\ [][NextPower]_vars

\* The speaker answers the request call c awaits: /volume with its mute
\* state, the press of MUTE by toggling it.
SpeakerReplies(c) ==
  LET r == calls[c].cur
      body == IF r.method = "GET" /\ r.path = "/volume"
              THEN [doc |-> "volume", val |-> IF deviceMute THEN "true" ELSE "false"]
              ELSE [doc |-> "status", val |-> ""]
  IN /\ calls[c].req = "inflight"
     /\ deviceMute' = IF r.path = "/key" /\ r.body = Body("press", "MUTE", 0)
                      THEN ~deviceMute
                      ELSE deviceMute
     /\ ClientBecomes(deliver(Client, c, [type |-> "end", status |-> StatusOkFrom,
                                          body |-> body]))
     /\ lastEv' = [call |-> c, type |-> "end", status |-> StatusOkFrom,
                   body |-> body]
     /\ applied' = "none"
     /\ UNCHANGED isPoweredOn
     /\ UNCHANGED notClient

\* Calls of setMute that overlap, on a speaker that answers every request.
NextMute ==
  \E c \in Calls :
    \/ \E inv \in {i \in Invocations : i.op = "setMute"} : Invoke(c, inv)
    \/ SpeakerReplies(c)

SpecMute == Init /\ [][NextMute]_vars

\* --------------------------------------------------- actions of discovery
\* The continuous browse ran handler kind for the service, leaving d.
Browsed(d, kind, service) ==
  /\ devices' = d.devices
  /\ notices' = d.notices
  /\ reported' =
       (reported \cup {keyOf(d.notices[i].device.host, d.notices[i].device.port) :
                         i \in {j \in DOMAIN d.notices : d.notices[j].kind = "added"}})
         \ {keyOf(d.notices[i].device.host, d.notices[i].device.port) :
              i \in {j \in DOMAIN d.notices : d.notices[j].kind = "removed"}}
  /\ lastSvc' = [kind |-> kind, service |-> service]
  /\ platform' = IF /\ platform.pc = "done"
                    /\ d.notices # <<>>
                    /\ d.notices[1].kind = "added"
                 THEN onDeviceFound(platform, d.notices[1].device)
                 ELSE platform

\* start(onDeviceFound, onDeviceLost)
Start ==
  /\ ~browser
  /\ browser' = TRUE
  /\ Browsed(Disco, "start", NoSvc.service)
  /\ UNCHANGED <<onceDevices, onceOpen, heard>>
  /\ UNCHANGED notDiscovery

\* stop()
Stop ==
  /\ browser' = FALSE
  /\ Browsed(Disco, "stop", NoSvc.service)
  /\ UNCHANGED <<onceDevices, onceOpen, heard>>
  /\ UNCHANGED notDiscovery

\* The browser reports a service as up.
ServiceUp(service) ==
  /\ browser
  /\ Browsed(handleServiceUp(Disco, service), "up", service)
  /\ UNCHANGED <<browser, onceDevices, onceOpen, heard>>
  /\ UNCHANGED notDiscovery

\* The browser reports a service as down.
ServiceDown(service) ==
  /\ browser
  /\ Browsed(handleServiceDown(Disco, service), "down", service)
  /\ UNCHANGED <<browser, onceDevices, onceOpen, heard>>
  /\ UNCHANGED notDiscovery

\* discoverOnce(timeout) is called: it browses until its timer fires.
DiscoverOnce ==
  /\ ~onceOpen
  /\ onceOpen' = TRUE
  /\ onceDevices' = <<>>
  /\ heard' = {}
  /\ lastSvc' = [kind |-> "discoverOnce", service |-> NoSvc.service]
  /\ UNCHANGED <<browser, devices, notices, reported, platform>>
  /\ UNCHANGED notDiscovery

\* The browser of discoverOnce() reports a service.
OnceServiceUp(service) ==
  /\ onceOpen
  /\ Cardinality(heard \cup {service}) <= MaxAnnounce
  /\ heard' = heard \cup {service}
  /\ onceDevices' = discoverOnce_onService(onceDevices, service)
  /\ lastSvc' = [kind |-> "onceUp", service |-> service]
  /\ UNCHANGED <<browser, devices, notices, reported, onceOpen, platform>>
  /\ UNCHANGED notDiscovery

\* The timer of discoverOnce() fires: the browser stops, the array is returned.
OnceTimeout ==
  /\ onceOpen
  /\ onceOpen' = FALSE
  /\ lastSvc' = [kind |-> "onceTimeout", service |-> NoSvc.service]
  /\ UNCHANGED <<browser, devices, notices, reported, onceDevices, heard,
                 platform>>
  /\ UNCHANGED notDiscovery

\* One bounded browse.
NextOnce ==
  \/ DiscoverOnce
  \/ \E service \in Services : OnceServiceUp(service)
  \/ OnceTimeout

SpecOnce == Init /\ [][NextOnce]_vars

\* The continuous browse.
NextBrowse ==
  \/ Start
  \/ Stop
  \/ \E service \in Services : ServiceUp(service)
  \/ \E service \in Services : ServiceDown(service)

SpecBrowse == Init /\ [][NextBrowse]_vars

\* ------------------------------------------------ actions of the platform
\* 'didFinishLaunching': discoverDevices() runs up to the await of
\* discoverOnce(), or to its end when autoDiscover is false.
DidFinishLaunching(config, autoDiscover) ==
  /\ platform.pc = "idle"
  /\ LET hasHost(d) == d.host \notin {"", " "}
         p == [platform EXCEPT
                 !.config = config,
                 !.configuredDevices =
                    setFrom(<<>>, SelectSeq(config, hasHost), 1, TRUE)]
     IN IF autoDiscover
        THEN /\ platform' = [p EXCEPT !.pc = "once"]
             /\ onceOpen' = TRUE
             /\ onceDevices' = <<>>
             /\ heard' = {}
        ELSE /\ platform' = [registerFrom(p, 1) EXCEPT !.pc = "done"]
             /\ UNCHANGED <<onceOpen, onceDevices, heard>>
  /\ lastSvc' = [kind |-> "didFinishLaunching", service |-> NoSvc.service]
  /\ UNCHANGED <<browser, devices, notices, reported>>
  /\ UNCHANGED notDiscovery

\* The promise of discoverOnce() settles and discoverDevices() runs to its
\* end. The promise is rejected when the browse could not be set up, before
\* any service is reported; start() returns or throws.
DiscoverDevicesResumes(onceOk, startOk) ==
  /\ platform.pc = "once"
  /\ onceOpen
  /\ ~onceOk => heard = {}
  /\ onceOpen' = FALSE
  /\ LET p == IF onceOk
              THEN [platform EXCEPT !.configuredDevices = merge(@, onceDevices)]
              ELSE platform
     IN IF startOk
        THEN /\ browser' = TRUE
             /\ platform' = [registerFrom(p, 1) EXCEPT !.pc = "done"]
        ELSE /\ browser' = FALSE
             /\ platform' = [p EXCEPT !.pc = "failed"]
  /\ lastSvc' = [kind |-> IF startOk THEN "start" ELSE "startThrows",
                 service |-> NoSvc.service]
  /\ UNCHANGED <<devices, notices, reported, onceDevices, heard>>
  /\ UNCHANGED notDiscovery

\* 'shutdown': cleanup() stops the discovery, destroys every accessory and
\* clears both maps. The timer of a discoverOnce() under way stays armed.
Shutdown ==
  /\ platform.pc # "idle"
  /\ ~platform.cleaned
  /\ browser' = FALSE
  /\ platform' = [platform EXCEPT !.soundTouchAccessories = <<>>,
                                  !.externalAccessories = <<>>,
                                  !.cleaned = TRUE]
  /\ lastSvc' = [kind |-> "shutdown", service |-> NoSvc.service]
  /\ notices' = <<>>
  /\ UNCHANGED <<devices, reported, onceDevices, onceOpen, heard>>
  /\ UNCHANGED notDiscovery

\* The platform with two hosts, one of them announced at two ports.
NextPlatform ==
  \/ Shutdown
  \/ \E config \in Configs, autoDiscover \in BOOLEAN :
       DidFinishLaunching(config, autoDiscover)
  \/ \E onceOk, startOk \in BOOLEAN : DiscoverDevicesResumes(onceOk, startOk)
  \/ \E service \in {sv \in Services :
                        /\ sv.name = "Bose"
                        /\ \/ sv.addresses = <<"10.0.0.1">>
                           \/ sv.addresses = <<"10.0.0.2">> /\ sv.port = 0} :
       \/ OnceServiceUp(service)
       \/ ServiceUp(service)
       \/ ServiceDown(service)

SpecPlatform == Init /\ [][NextPlatform]_vars

\* --------------------------------------------------- actions of the codec
\* storePreset(id, item) writes its document; getPresets() reads it back.
StorePreset(item) ==
  /\ xml' = [op |-> "storePreset", input |-> item, wire |-> encode(item),
             output |-> decode(encode(item))]
  /\ UNCHANGED <<svars, cvars, dvars, platform, accessory, deviceMute>>

\* getPresets() or getInfo() reads a field that may hold several elements.
Decode(op, field) ==
  /\ xml' = [op |-> op, input |-> field,
             output |-> IF op = "getInfo" THEN wifiInfo(field)
                        ELSE normalize(field)]
  /\ UNCHANGED <<svars, cvars, dvars, platform, accessory, deviceMute>>

\* Content items with empty, plain and escaped text, with and without the
\* optional values; fields of none, one and two elements in both shapes.
NextXml ==
  \/ \E item \in [source : {"", "TUNEIN", "a&b"},
                   type : {"", "stationurl", "a&b", "undefined"},
                   location : {"", "/v1/s1", "a&b"},
                   sourceAccount : {"", "user", "a&b", "undefined"},
                   name : {"", "Radio", "a&b", "undefined"}] : StorePreset(item)
  \/ \E op \in {"getPresets", "getInfo"} :
       \E e1, e2 \in [type : {"WIFI", "ETHERNET"}, ssid : {"net"},
                      macAddress : {"AA"}] :
         \E field \in {[shape |-> "absent", items |-> <<>>],
                       [shape |-> "object", items |-> <<e1>>],
                       [shape |-> "array", items |-> <<e1>>],
                       [shape |-> "array", items |-> <<e1, e2>>]} :
           Decode(op, field)

SpecXml == Init /\ [][NextXml]_vars

\* ----------------------------------------------- actions of the accessory
\* new SoundTouchAccessory(...): the constructor calls initialize(), which
\* runs up to `await this.client.getInfo()`.
NewAccessory ==
  /\ accessory.pc = "none"
  /\ accessory' = [accessory EXCEPT !.pc = "getInfo"]
  /\ UNCHANGED <<svars, notStream>>

\* An await of initialize() is resumed. refreshState() catches what it
\* throws; after getPresets() comes setupWebSocket(), which calls connect().
InitializeResumes(ok) ==
  /\ accessory.pc \in {"getInfo", "refreshState", "getPresets"}
  /\ Idle
  /\ IF accessory.pc = "getPresets" /\ ok
     THEN LET o == connect(This) IN
          /\ o.attempts <= MaxSockets
          /\ Becomes(o)
          /\ lastOp' = <<"connect", 0>>
          /\ pingSent' = FALSE
          /\ handled' = NoFrame
          /\ accessory' = [accessory EXCEPT !.pc = "ready"]
          /\ UNCHANGED <<owed, opened, frame>>
     ELSE /\ accessory' =
               [accessory EXCEPT !.pc =
                  CASE accessory.pc = "refreshState" -> "getPresets"
                    [] ~ok -> "failed"
                    [] OTHER -> "refreshState"]
          /\ UNCHANGED <<svars, notStream>>

\* destroy()
Destroy ==
  /\ accessory.pc # "none"
  /\ Idle
  /\ Becomes(disconnect(This))
  /\ owed' = 0
  /\ lastOp' = <<"disconnect", 0>>
  /\ pingSent' = FALSE
  /\ handled' = NoFrame
  /\ accessory' = [accessory EXCEPT !.destroyed = TRUE]
  /\ UNCHANGED <<opened, frame>>

\* One accessory and the events of its stream.
NextAccessory ==
  \/ NewAccessory
  \/ \E ok \in BOOLEAN : InitializeResumes(ok)
  \/ Destroy
  \/ \E s \in Sockets : SocketOpen(s)
  \/ \E s \in Sockets : SocketError(s)
  \/ \E s \in Sockets : SocketClose(s)
  \/ ReconnectTimerFires
  \/ PingTick

SpecAccessory == Init /\ [][NextAccessory]_vars

\* ---------------------------------------------------------------- claims

\* C1: at most one socket that is connecting or open exists at any time,
\* under every interleaving of connect(), disconnect(), socket events and
\* reconnect-timer firings.
C1_AtMostOneLiveSocket == Cardinality(LiveSockets) <= 1

\* C2: at most one reconnect timer is pending in every reachable state, and
\* the timer field tracks it: scheduleReconnect() arms no second timer and
\* the close handler clears a pending timer before arming a new one.
C2_AtMostOneReconnectTimer ==
  /\ timeouts <= 1
  /\ reconnectTimer <=> (timeouts = 1)

\* C2 witness: a close event arrived while the timer of an earlier close was
\* still pending, and one timer is pending.
C2_Witness ==
  /\ lastOp[1] = "close"
  /\ owed >= 2
  /\ timeouts = 1

\* C3: connect() while Connecting or Connected is a no-op: no socket is
\* created, no timer armed or cleared, no event emitted, state unchanged.
C3_ConnectNoOpWhenBusy ==
  [][(/\ lastOp' = <<"connect", 0>>
      /\ \/ ConnState \in {"Connecting", "Connected"}
         \/ ws \in LiveSockets)
     => (UNCHANGED fields /\ out' = <<>>)]_vars

\* C3 witness: connect() was called on an open connection.
C3_Witness ==
  /\ lastOp = <<"connect", 0>>
  /\ ws # 0
  /\ readyState[ws] = "OPEN"
  /\ ConnState = "Connected"
  /\ out = <<>>

\* C4: disconnect() cancels the pending reconnect timer and leaves the state
\* Disconnected; from then on, as long as connect() is not called, the state
\* stays Disconnected, no timer is pending and no connection attempt is
\* started, whatever socket event is delivered.
C4_DisconnectIsFinal ==
  [][/\ (lastOp' = <<"disconnect", 0>>)
          => (/\ ~shouldReconnect'
              /\ timeouts' = 0
              /\ ConnState' = "Disconnected")
     /\ (~shouldReconnect /\ lastOp'[1] # "connect")
          => (/\ ~shouldReconnect'
              /\ attempts' = attempts
              /\ timeouts' = 0
              /\ ConnState' = "Disconnected")]_vars

\* C4 witness: the close event of the socket closed by disconnect() has been
\* delivered and nothing is pending.
C4_Witness ==
  /\ lastOp[1] = "close"
  /\ ~shouldReconnect
  /\ out = <<"disconnected">>
  /\ timeouts = 0
  /\ ConnState = "Disconnected"

\* C5: reconnection has no retry cap: while disconnect() is not called,
\* every close event and every failure to create the socket is eventually
\* followed by a new connection attempt, however many attempts have failed
\* (attempts below the bound of the model).
C5_ReconnectsForever ==
  \A n \in 0..(MaxSockets - 1) :
    (/\ attempts = n
     /\ shouldReconnect
     /\ \/ lastOp[1] = "close"
        \/ lastOp[1] \in {"connect", "reconnectTimer"} /\ out = <<"error">>)
    ~> (attempts > n \/ ~shouldReconnect)

\* C5 witness: an attempt started by the timer after two sockets had closed.
C5_Witness ==
  /\ lastOp = <<"reconnectTimer", 0>>
  /\ attempts = 3
  /\ Cardinality({s \in Sockets : readyState[s] = "CLOSED"}) = 2
  /\ ws = 3
  /\ readyState[ws] = "CONNECTING"

\* C6: each close event delivered while reconnection is enabled causes
\* exactly one new connection attempt after the reconnect delay: the close
\* events not yet answered by an attempt are as many as the pending timers.
C6_OneAttemptPerClose == hostValid => owed = timeouts

\* C7: the connection state changes only along Disconnected->Connecting on
\* connect(), Connecting->Connected on open, Connecting->ReconnectPending on
\* open failure, Connected->ReconnectPending on close of the connection,
\* ReconnectPending->Connecting on timer expiry, any->Disconnected on
\* disconnect().  (A connect() whose socket creation throws passes through
\* Connecting within the call.)
C7_OnlyListedTransitions ==
  [][LET a == ConnState
         b == ConnState'
         op == lastOp'[1]
         sock == lastOp'[2]
     IN \/ a = b
        \/ a = "Disconnected" /\ b = "Connecting" /\ op = "connect"
        \/ a = "Disconnected" /\ b = "ReconnectPending" /\ op = "connect"
             /\ ~hostValid
        \/ a = "Connecting" /\ b = "Connected" /\ op = "open" /\ sock = ws
        \/ a = "Connecting" /\ b = "ReconnectPending" /\ op = "close"
             /\ sock = ws
        \/ a = "Connected" /\ b = "ReconnectPending" /\ op = "close"
             /\ sock = ws
        \/ a = "ReconnectPending" /\ b = "Connecting" /\ op = "reconnectTimer"
        \/ b = "Disconnected" /\ op = "disconnect"]_vars

\* C8: a ping is sent only while the current socket is open, and no
\* heartbeat timer is active in Disconnected, Connecting or ReconnectPending.
C8_HeartbeatOnlyWhileConnected ==
  /\ pingSent => (ws # 0 /\ readyState[ws] = "OPEN")
  /\ ConnState # "Connected" => (intervals = 0 /\ ~pingInterval)

\* Number of times event e occurs in the sequence of events evs.
Count(evs, e) == Cardinality({i \in DOMAIN evs : evs[i] = e})

\* The frame cannot be parsed, or one of its keys cannot be decoded.
Undecodable(f) ==
  \/ f.kind = "garbage"
  \/ f.kind = "updates" /\ \E c \in CategoryIds : Throws(f.cats[c])

\* C9: a frame that fails to parse or decode produces zero emitted events
\* and leaves the connection state and both timers unchanged.
C9_UndecodableFrameIsDropped ==
  [][(lastOp' = <<"handleMessage", 0>> /\ Undecodable(frame))
     => (out' = <<>> /\ UNCHANGED fields)]_vars

C11_ErrorOnlyEmits ==
  [][lastOp'[1] = "error" =>
       /\ out' = <<"error">>
       /\ UNCHANGED <<ws, isConnecting, shouldReconnect, reconnectTimer,
                      pingInterval, timeouts, intervals, attempts>>
       /\ ConnState' = ConnState]_vars

\* An open socket with its heartbeat running has just reported an error.
C11_Witness ==
  /\ lastOp[1] = "error"
  /\ out = <<"error">>
  /\ ws = lastOp[2]
  /\ ConnState = "Connected"
  /\ pingInterval
  /\ intervals = 1
  /\ shouldReconnect

\* C12: once disconnect() has returned, and until connect() starts a new
\* attempt, no timer of the stream is pending and no callback of the stream
\* emits anything to the listeners: no 'connected', 'disconnected', 'error'
\* or update event, and no heartbeat ping.
C12_SilentAfterDisconnect ==
  /\ [](~shouldReconnect => timeouts = 0 /\ intervals = 0)
  /\ [][(~shouldReconnect /\ lastOp'[1] \notin {"connect", "disconnect"})
         => (out' = <<>> /\ ~pingSent')]_vars

\* ------------------------------------------------- reading the wire log
\* Entry i is the request call c sent for a key in the given state.
KeyRequest(i, c, state) ==
  /\ log[i].call = c
  /\ log[i].dir = "out"
  /\ log[i].method = "POST"
  /\ log[i].path = "/key"
  /\ log[i].body.tag = state

\* Entry i is the completion of a request of call c.
Completion(i, c) == log[i].call = c /\ log[i].dir = "in"

\* The entries of call c, in order.
Of(c) == SelectSeq(log, LAMBDA e : e.call = c)

\* The requests of call c, in order.
RequestsOf(c) == SelectSeq(log, LAMBDA e : e.call = c /\ e.dir = "out")

\* C13: within one pressKey call the release request is issued only after
\* the press request of the same key has completed successfully (a 2xx
\* response with a decodable body); the call never has two requests in flight;
\* and once a request of the call has failed the call sends no release.
C13_ReleaseOnlyAfterPress ==
  /\ [](\A c \in Calls :
          LET es == Of(c) IN
          \A i \in DOMAIN es :
            /\ (es[i].dir = "out" /\ i > 1) => (es[i - 1].dir = "in" /\ es[i - 1].ok)
            /\ (es[i].dir = "out" /\ es[i].body.tag = "release") =>
                 /\ i > 2
                 /\ es[i - 2].dir = "out"
                 /\ es[i - 2].body = Body("press", es[i].body.key, 0)
                 /\ es[i - 1].body = es[i - 2].body)
  /\ [][\A c \in Calls :
          (/\ Len(log') > Len(log)
           /\ log'[Len(log')].call = c
           /\ log'[Len(log')].dir = "out"
           /\ log'[Len(log')].body.tag = "release")
            => /\ lastEv'.call = c
               /\ lastEv'.type = "end"
               /\ lastEv'.status \in 200..299
               /\ lastEv'.body # Malformed
               /\ calls[c].pc = "press"]_vars

\* A pressKey call has run to its end: press, completion, release, completion.
C13_Witness ==
  /\ calls[1].op = "pressKey"
  /\ calls[1].pc = "done"
  /\ Len(log) = 4
  /\ KeyRequest(1, 1, "press")
  /\ Completion(2, 1) /\ log[2].ok
  /\ KeyRequest(3, 1, "release")
  /\ log[3].body.key = log[1].body.key
  /\ Completion(4, 1) /\ log[4].ok

\* C14: a key press that returns has produced exactly two requests, the press
\* and then the release of its key; and when key presses overlap on one
\* client, no request for another key goes out between the press and the
\* release of a key.
C14_KeyPressesNotInterleaved ==
  \A c \in Calls :
    /\ (calls[c].op = "pressKey" /\ calls[c].pc = "done") =>
         LET rs == RequestsOf(c) IN
         /\ Len(rs) = 2
         /\ rs[1].body = Body("press", calls[c].key, 0)
         /\ rs[2].body = Body("release", calls[c].key, 0)
    /\ \A i, j, h \in DOMAIN log :
         (/\ i < j /\ j < h
          /\ KeyRequest(i, c, "press")
          /\ KeyRequest(h, c, "release")
          /\ log[j].dir = "out")
           => log[j].body.key = log[i].body.key

\* The requests a press/release pair of the key consists of.
Toggle(key) ==
  <<[method |-> "POST", path |-> "/key", body |-> Body("press", key, 0)],
    [method |-> "POST", path |-> "/key", body |-> Body("release", key, 0)]>>

\* The request of a query.
Query(path) == <<[method |-> "GET", path |-> path, body |-> NoBody]>>

\* What call c put on the wire: method, path and body of its requests.
Wire(c) ==
  LET rs == RequestsOf(c)
  IN [i \in DOMAIN rs |->
        [method |-> rs[i].method, path |-> rs[i].path, body |-> rs[i].body]]

\* s is the beginning of t.
Prefix(s, t) == Len(s) <= Len(t) /\ SubSeq(t, 1, Len(s)) = s

\* C15: setMute(m) first queries /volume and sends nothing else before the
\* answer; if the mute state it reads equals m it sends no MUTE request, and
\* if it differs it issues the MUTE toggle once: the press, and after it the
\* release, both sent when the call returns.
C15_SetMuteTogglesOnlyOnDifference ==
  \A c \in Calls :
    calls[c].op = "setMute" =>
      /\ Prefix(Query("/volume"), Wire(c))
      /\ calls[c].pc = "getVolume" => Wire(c) = Query("/volume")
      /\ (calls[c].pc # "getVolume" /\ calls[c].value # "") =>
           IF (calls[c].value = "true") = calls[c].muted
           THEN Wire(c) = Query("/volume") /\ calls[c].pc = "done"
           ELSE /\ Prefix(Query("/volume") \o SubSeq(Toggle("MUTE"), 1, 1), Wire(c))
                /\ Prefix(Wire(c), Query("/volume") \o Toggle("MUTE"))
                /\ calls[c].pc = "done" =>
                     Wire(c) = Query("/volume") \o Toggle("MUTE")

\* setMute(true) found the device unmuted and has sent the toggle.
C15_Witness ==
  /\ calls[1].op = "setMute"
  /\ calls[1].muted
  /\ calls[1].value = "false"
  /\ calls[1].pc = "done"
  /\ Wire(1) = Query("/volume") \o Toggle("MUTE")

\* The operations that are one key press.
KeyPressOps == {"pressKey"}

\* The operations that query the device and toggle it when needed.
ConditionalOps == {"setMute", "powerOn", "powerOff"}

\* C16 as stated: a call issues one request, or two when it is a key press:
\* never more while it runs, and exactly that many when it returns. This
\* holds for every operation, setMute, powerOn and powerOff included.
C16_OneOrTwoRequests ==
  \A c \in Calls :
    calls[c].op # "none" =>
      LET n == IF calls[c].op \in KeyPressOps THEN 2 ELSE 1 IN
      /\ Len(Wire(c)) <= n
      /\ calls[c].pc = "done" => Len(Wire(c)) = n

\* The queried state asks call c for the toggle.
MustToggle(c) ==
  CASE calls[c].op = "setMute" -> (calls[c].value = "true") # calls[c].muted
    [] calls[c].op = "powerOn" -> calls[c].value = "STANDBY"
    [] calls[c].op = "powerOff" -> calls[c].value # "STANDBY"
    [] OTHER -> FALSE

\* C16, amended: a call issues one request, or two sequential requests when
\* it is a key press: never more while it runs, and exactly that many when
\* it returns; except setMute, powerOn and powerOff, which issue one query
\* and, only when the state they read differs from the one asked for, the
\* two requests of a key press after it: three requests in all.
C16_OneOrTwoOrQueryThenToggle ==
  \A c \in Calls :
    calls[c].op # "none" =>
      LET n == CASE calls[c].op \in KeyPressOps -> 2
                 [] calls[c].op \in ConditionalOps ->
                      IF calls[c].value # "" /\ MustToggle(c) THEN 3 ELSE 1
                 [] OTHER -> 1
      IN /\ Len(Wire(c)) <= n
         /\ calls[c].pc = "done" => Len(Wire(c)) = n
         /\ (calls[c].op \in ConditionalOps /\ Len(Wire(c)) > 1) =>
              /\ Wire(c)[1].method = "GET"
              /\ Prefix(SubSeq(Wire(c), 2, Len(Wire(c))), Toggle(calls[c].key))

\* powerOff() found the device playing and has sent three requests.
C16_Witness ==
  /\ calls[1].op = "powerOff"
  /\ calls[1].value = "TUNEIN"
  /\ calls[1].pc = "done"
  /\ Wire(1) = Query("/now_playing") \o Toggle("POWER")

\* C17: for every integer level n, setVolume(n) sends min(100, max(0, n)) as
\* the volume, and setBass(n) sends n itself, unclamped.
C17_VolumeClampedBassNot ==
  \A c \in Calls :
    (calls[c].op \in {"setVolume", "setBass"} /\ calls[c].level % 2 = 0) =>
      LET n == calls[c].level \div 2
          sent == Wire(c)[1]
      IN /\ Len(Wire(c)) = 1
         /\ sent.method = "POST"
         /\ calls[c].op = "setVolume" =>
              /\ sent.path = "/volume"
              /\ sent.body.tag = "volume"
              /\ sent.body.value =
                   (IF n > 100 THEN 100 ELSE IF n < 0 THEN 0 ELSE n)
         /\ calls[c].op = "setBass" =>
              /\ sent.path = "/bass"
              /\ sent.body.tag = "bass"
              /\ sent.body.value = n

\* setVolume(150) has sent 100.
C17_Witness ==
  /\ calls[1].op = "setVolume"
  /\ calls[1].level = 300
  /\ calls[1].pc = "done"
  /\ Wire(1)[1].body.value = 100

\* C18: when a response ends with a status outside 200..299, or without a
\* status, the request fails and with it the call, whatever the body; when
\* it ends with a status in 200..299 the request succeeds: the call goes on
\* to decode the body and does not fail unless the body cannot be decoded.
C18_Non2xxFailsAnd2xxDoesNot ==
  [][\A c \in Calls :
       (lastEv'.call = c /\ lastEv'.type = "end" /\ calls[c].req = "inflight")
         => /\ Len(log') > Len(log)
            /\ log'[Len(log) + 1] =
                 [calls[c].cur EXCEPT !.dir = "in",
                    !.ok = /\ lastEv'.status \in 200..299
                           /\ lastEv'.body # Malformed]
            /\ lastEv'.status \notin 200..299 =>
                 /\ calls'[c].pc = "failed"
                 /\ Len(log') = Len(log) + 1
            /\ (/\ lastEv'.status \in 200..299
                /\ calls[c].pc = "getVolume" => lastEv'.body.doc = "volume"
                /\ calls[c].pc = "getNowPlaying" => lastEv'.body.doc = "nowPlaying"
                /\ lastEv'.body # Malformed)
                 => calls'[c].pc # "failed"]_vars

\* A response with status 404 and a well-formed <volume> body has failed
\* getVolume().
C18_Witness ==
  /\ lastEv.call = 1
  /\ lastEv.type = "end"
  /\ lastEv.status = 404
  /\ lastEv.body.doc = "volume"
  /\ calls[1].op = "getVolume"
  /\ calls[1].pc = "failed"

\* What makes a request or the decoding of its answer fail.
Failure(ev) ==
  \/ ev.type \in {"error", "timeout"}
  \/ ev.status \notin 200..299
  \/ ev.body = Malformed

\* C19: nothing is retried inside the client. When a request of a call ends
\* with a status outside 200..299, a connection error, a timeout or an
\* undecodable body, the call fails and sends no further request (a timed out
\* request is destroyed); and every request is completed towards its call
\* exactly once: requests and completions of a call alternate, and a failed
\* completion is the call's last entry.
C19_NoRetryAndOneOutcomePerRequest ==
  /\ [](\A c \in Calls :
          LET es == Of(c) IN
          /\ \A i \in DOMAIN es :
               /\ es[i].dir = (IF i % 2 = 1 THEN "out" ELSE "in")
               /\ es[i].dir = "in" =>
                    /\ es[i].body = es[i - 1].body
                    /\ es[i].path = es[i - 1].path
                    /\ ~es[i].ok => i = Len(es)
          /\ calls[c].pc = "failed" => (Len(es) > 0 /\ es[Len(es)].dir = "in")
          /\ calls[c].resumed <= calls[c].nsent)
  /\ [][\A c \in Calls :
          /\ (lastEv'.call = c /\ calls[c].req = "inflight" /\ Failure(lastEv'))
               => /\ calls'[c].pc = "failed"
                  /\ RequestsOf(c)' = RequestsOf(c)
                  /\ Len(Of(c)') = Len(Of(c)) + 1
                  /\ lastEv'.type = "timeout" => calls'[c].req = "destroyed"
          /\ (lastEv'.call = c /\ calls[c].pc = "failed")
               => (calls'[c].pc = "failed" /\ log' = log)]_vars

\* A request has timed out: it was destroyed, its call has failed after one
\* request and one completion.
C19_Witness ==
  /\ lastEv.call = 1
  /\ lastEv.type = "timeout"
  /\ calls[1].req = "destroyed"
  /\ calls[1].pc = "failed"
  /\ calls[1].nsent = 1
  /\ Len(Of(1)) = 2
  /\ ~Of(1)[2].ok

\* C20: whenever the accessory applies the result of a /now_playing query or
\* a pushed now-playing update, it holds the device to be off exactly when
\* the source is STANDBY; powerOn() sends the POWER key exactly when the
\* source it queried is STANDBY, and powerOff() exactly when it is not.
C20_PowerFollowsStandby ==
  /\ applied # "none" => (~isPoweredOn <=> applied = "STANDBY")
  /\ \A c \in Calls :
       (calls[c].op \in {"powerOn", "powerOff"}
          /\ calls[c].pc # "getNowPlaying") =>
         LET pressed == \E i \in DOMAIN log : KeyRequest(i, c, "press")
             standby == calls[c].value = "STANDBY"
         IN /\ pressed => log[2].call = c /\ log[3] = [log[1] EXCEPT
                            !.method = "POST", !.path = "/key",
                            !.body = Body("press", "POWER", 0)]
            /\ calls[c].value = "" => ~pressed
            /\ (calls[c].value # "" /\ calls[c].op = "powerOn") =>
                 (pressed <=> standby)
            /\ (calls[c].value # "" /\ calls[c].op = "powerOff") =>
                 (pressed <=> ~standby)

\* The result of a /now_playing query naming STANDBY has been applied: the
\* accessory holds the device to be off.
C20_Witness ==
  /\ applied = "STANDBY"
  /\ ~isPoweredOn
  /\ calls[1] = NoCall
  /\ Len(log) = 2
  /\ log[1].path = "/now_playing"
  /\ log[2].ok

\* C21: whatever was announced while discoverOnce() browsed, the list it
\* returns has no two entries with the same host and port, has an entry for
\* the host and port of every announced service that has an address, and has
\* exactly one entry for two announcements that differ only in the name.
C21_OneEntryPerHostAndPort ==
  LET port(sv) == IF sv.port = 0 THEN DefaultPort ELSE sv.port
      v4(sv) == {i \in DOMAIN sv.addresses :
                   sv.addresses[i] \in {"10.0.0.1", "10.0.0.2"}}
      host(sv) == IF v4(sv) = {} THEN sv.addresses[1]
                  ELSE sv.addresses[CHOOSE i \in v4(sv) : \A j \in v4(sv) : i <= j]
      entries(sv) == {i \in DOMAIN onceDevices :
                        /\ onceDevices[i].host = host(sv)
                        /\ onceDevices[i].port = port(sv)}
  IN /\ \A i, j \in DOMAIN onceDevices :
          i # j => ~(/\ onceDevices[i].host = onceDevices[j].host
                     /\ onceDevices[i].port = onceDevices[j].port)
     /\ \A sv \in heard : sv.addresses # <<>> => entries(sv) # {}
     /\ \A sv, t \in heard :
          (/\ sv.name # t.name
           /\ sv.addresses = t.addresses
           /\ sv.port = t.port
           /\ sv.addresses # <<>>) => Cardinality(entries(sv)) = 1

\* The browse ended after two announcements that differ only in the name and
\* one of another address.
C21_Witness ==
  /\ lastSvc.kind = "onceTimeout"
  /\ Len(onceDevices) = 2
  /\ \E sv, t \in heard : /\ sv.name # t.name
                          /\ sv.addresses = t.addresses
                          /\ sv.port = t.port
                          /\ sv.addresses # <<>>

\* C22: in the continuous browse, a service-up that has an address gives an
\* 'added' notification exactly when its host and port are not tracked, and
\* the device is tracked from then on; when they are tracked, nothing is
\* notified and the tracked set stays as it is.
C22_AddedExactlyWhenNotTracked ==
  [][lastSvc'.kind = "up" /\ lastSvc'.service.addresses # <<>> =>
       LET sv == lastSvc'.service
           v4 == {i \in DOMAIN sv.addresses :
                    sv.addresses[i] \in {"10.0.0.1", "10.0.0.2"}}
           device == [name |-> sv.name,
                      host |-> IF v4 = {} THEN sv.addresses[1]
                               ELSE sv.addresses[CHOOSE i \in v4 :
                                                   \A j \in v4 : i <= j],
                      port |-> IF sv.port = 0 THEN DefaultPort ELSE sv.port]
           key == keyOf(device.host, device.port)
       IN IF key \notin DOMAIN devices
          THEN /\ notices' = <<[kind |-> "added", device |-> device]>>
               /\ DOMAIN devices' = DOMAIN devices \cup {key}
               /\ devices'[key] = device
               /\ \A k \in DOMAIN devices : devices'[k] = devices[k]
          ELSE /\ notices' = <<>>
               /\ devices' = devices]_vars

\* A tracked host and port was announced again, under another name.
C22_Witness ==
  /\ lastSvc.kind = "up"
  /\ lastSvc.service.addresses # <<>>
  /\ notices = <<>>
  /\ \E k \in DOMAIN devices :
       /\ devices[k].host \in {lastSvc.service.addresses[i] :
                                 i \in DOMAIN lastSvc.service.addresses}
       /\ devices[k].name # lastSvc.service.name

\* C23: a 'removed' notification is made only for a host and port that was
\* notified as added and not as removed since, and once in a step; a
\* service-down none of whose addresses is tracked notifies nothing and
\* leaves the tracked set as it is.
C23_RemovedOnlyAfterAdded ==
  [][LET removed == {i \in DOMAIN notices' : notices'[i].kind = "removed"}
         key(i) == keyOf(notices'[i].device.host, notices'[i].device.port)
         sv == lastSvc'.service
     IN /\ \A i \in removed : key(i) \in reported
        /\ \A i, j \in removed : i # j => key(i) # key(j)
        /\ (/\ lastSvc'.kind = "down"
            /\ \A a \in DOMAIN sv.addresses :
                 keyOf(sv.addresses[a],
                       IF sv.port = 0 THEN DefaultPort ELSE sv.port)
                   \notin DOMAIN devices)
           => notices' = <<>> /\ devices' = devices]_vars

\* One service-down removed two tracked devices.
C23_Witness ==
  /\ lastSvc.kind = "down"
  /\ Len(notices) = 2
  /\ \A i \in DOMAIN notices : notices[i].kind = "removed"

\* C24: every service announced to discoverOnce() is reported: with an
\* IPv4-shaped address of its own as host when it advertises one, and with
\* its host name as host when it advertises no address.
C24_PrefersIPv4ElseHostname ==
  \A sv \in heard :
    LET v4 == {sv.addresses[i] : i \in DOMAIN sv.addresses}
                \cap {"10.0.0.1", "10.0.0.2"}
        port == IF sv.port = 0 THEN DefaultPort ELSE sv.port
    IN /\ v4 # {} =>
            \E i \in DOMAIN onceDevices : /\ onceDevices[i].host \in v4
                                          /\ onceDevices[i].port = port
       /\ sv.addresses = <<>> =>
            \E i \in DOMAIN onceDevices : /\ onceDevices[i].host = sv.host
                                          /\ onceDevices[i].port = port

\* C25: whatever the static configuration, the devices discoverOnce() found
\* and the devices notified as added later, no two accessories are ever
\* published for one host, and the accessory of a host of the static
\* configuration carries an entry of that configuration.
C25_OneAccessoryPerHostStaticFirst ==
  LET static == {platform.config[i] : i \in DOMAIN platform.config}
  IN /\ \A i, j \in DOMAIN platform.published :
          i # j => platform.published[i].host # platform.published[j].host
     /\ \A i \in DOMAIN platform.published :
          platform.published[i].host \in {d.host : d \in static}
            => platform.published[i] \in static
     /\ \A h \in DOMAIN platform.externalAccessories :
          h \in {d.host : d \in static}
            => platform.externalAccessories[h] \in static

\* A host of the static configuration was found by discoverOnce() and was
\* notified as added later; its accessory is published.
C25_Witness ==
  /\ platform.pc = "done"
  /\ lastSvc.kind = "up"
  /\ notices # <<>>
  /\ notices[1].device.host \in {platform.config[i].host : i \in DOMAIN platform.config}
  /\ \E i \in DOMAIN onceDevices : onceDevices[i].host = notices[1].device.host
  /\ \E i \in DOMAIN platform.published :
       platform.published[i].host = notices[1].device.host

\* C26: when discoverDevices() has ended, with discoverOnce() rejected or
\* start() throwing, every device of the static configuration that has a host
\* is registered, as long as cleanup() has not run.
C26_StaticRegisteredDespiteFailure ==
  (platform.pc \in {"done", "failed"} /\ ~platform.cleaned) =>
    \A i \in DOMAIN platform.config :
      platform.config[i].host \notin {"", " "}
        => platform.config[i].host \in DOMAIN platform.externalAccessories

\* C27: a content item whose source, type, location, sourceAccount and name
\* are all present comes back from storePreset and getPresets with the same
\* source, type, location, sourceAccount and name.
C27_ContentItemRoundTrip ==
  (/\ xml.op = "storePreset"
   /\ \A f \in {"source", "type", "location", "sourceAccount", "name"} :
        xml.input[f] # "undefined")
    => \A f \in {"source", "type", "location", "sourceAccount", "name"} :
         xml.output[f] = xml.input[f]

\* C28: a field that is absent decodes to no element, and a field that is one
\* object decodes to what the array of that one object decodes to, for the
\* presets as for the network info.
C28_SameForBothShapes ==
  xml.op \in {"getPresets", "getInfo"} =>
    LET asArray == [shape |-> "array", items |-> xml.input.items]
    IN /\ xml.input.shape = "absent" => xml.output = <<>>
       /\ xml.input.shape = "object" =>
            xml.output = IF xml.op = "getInfo" THEN wifiInfo(asArray)
                         ELSE normalize(asArray)

\* C29: when calls of setMute(m) that overlap, all with the same m, have all
\* returned normally, the speaker's mute state is m.
C29_ConcurrentSetMuteReachesTarget ==
  \A m \in BOOLEAN :
    (\A c \in Calls : /\ calls[c].op = "setMute"
                      /\ calls[c].muted = m
                      /\ calls[c].pc = "done")
      => deviceMute = m

\* C30: once destroy() has been called, the accessory's stream does not
\* create a socket again.
C30_NoConnectionAfterDestroy ==
  [][accessory.destroyed => attempts' = attempts]_vars

\* C32: 'disconnected' is emitted only by the close of a socket that had
\* opened, that is, for which 'connected' was emitted: never for a
\* connection attempt that failed before opening.
C32_DisconnectedOnlyAfterConnected ==
  [][(\E i \in DOMAIN out' : out'[i] = "disconnected")
       => lastOp'[1] = "close" /\ lastOp'[2] \in opened]_vars

\* C33: while the current socket is open, the object holds a heartbeat timer
\* and exactly one heartbeat timer is active.
C33_OneHeartbeatWhileConnected ==
  (ws # 0 /\ ws \in opened /\ readyState[ws] = "OPEN")
    => (pingInterval /\ intervals = 1)

\* C31: once cleanup() has run, no browse is under way on behalf of the
\* platform and both accessory maps are empty.
C31_NothingAfterCleanup ==
  platform.cleaned =>
    /\ ~browser
    /\ DOMAIN platform.soundTouchAccessories = {}
    /\ DOMAIN platform.externalAccessories = {}

\* C34: the two maps of the platform have the same hosts, every registered
\* host has one accessory, the one that was published for it last, and
\* registerDevice for a registered host leaves the platform as it is.
C34_RegistryInvariant ==
  /\ DOMAIN platform.soundTouchAccessories = DOMAIN platform.externalAccessories
  /\ \A h \in DOMAIN platform.externalAccessories :
       /\ platform.soundTouchAccessories[h] = platform.externalAccessories[h]
       /\ platform.externalAccessories[h].host = h
       /\ Cardinality({i \in DOMAIN platform.published :
                         platform.published[i].host = h}) = 1
       /\ \A name \in {"Bose", "Living"} :
            registerDevice(platform, [name |-> name, host |-> h,
                                      deviceIcon |-> ""]) = platform

\* Two hosts are registered, one from the static configuration and one that
\* was notified as added.
C34_Witness ==
  /\ Cardinality(DOMAIN platform.externalAccessories) = 2
  /\ lastSvc.kind = "up"
  /\ notices # <<>>
  /\ notices[1].device.host \in DOMAIN platform.externalAccessories
  /\ \E h \in DOMAIN platform.externalAccessories :
       platform.externalAccessories[h].deviceIcon # ""

====
